---- MODULE Spec2Model ----
(***************************************************************************)
(* Next.js -> React converter.  Two programs share the target tree:        *)
(*  - the Tk front end of nextjs_converter.py (ConverterGUI,               *)
(*    ProjectAnalyzer, ProjectConverter) with its conversion thread and    *)
(*    the user's Start / Cancel actions: specification Spec;               *)
(*  - the command line converter of converter.py (NextToReactConverter,    *)
(*    UIHashVerifier) with its pool of worker threads: specification       *)
(*    SpecCLI.                                                             *)
(* SpecRerun is the front end started once more on a small project,        *)
(* SpecHang the front end when a call of convert_file may never return,    *)
(* SpecPure the functions of both programs called on their own.            *)
(*                                                                         *)
(* Texts are sequences of tokens, each token standing for one concrete     *)
(* piece of source text:                                                   *)
(*   "text"      a line with none of the recognised constructs             *)
(*   "impRouter" import { useRouter } from 'next/router'                   *)
(*   "impRRD3"   import { useNavigate, useLocation, useParams }            *)
(*               from "react-router-dom"                                   *)
(*   "impRRD2"   import { useNavigate, useLocation } from "react-router-dom"*)
(*   "tagDiv"    <div>                                                     *)
(*   "tagImage"  <Image src="a.png" width="200" height="100" />            *)
(*   "tagLazy"   <LazyLoadImage src="a.png"  width="200" height="100" />   *)
(*   "tagImg"    <img src="a.png" width=200 height=100 loading="lazy" />   *)
(*   "callPush"  router.push('/home')                                      *)
(*   "callNav"   navigate('/home')                                         *)
(*   "getStatic" export async function getStaticProps() { return 1 }       *)
(*   "useEffect" the useState/useEffect block of _convert_to_use_effect    *)
(*   "impRouterReexp"  the one line                                        *)
(*               import { useRouter } from 'next/router'; export * from 'next/router' *)
(*   "impRRD3Reexp"    "impRRD3" followed by ; export * from 'next/router' *)
(*   "impRRD2Reexp"    "impRRD2" followed by ; export * from 'next/router' *)
(*   "handler"   export default function handler(req, res) {}              *)
(*   "children"  {props.children}                                          *)
(*   "tagImageAlt"  <Image src="a.png" alt="<Image src='b.png' />" />      *)
(*   "tagLazyAlt"   <LazyLoadImage src="a.png"  alt="<Image src='b.png'  />" /> *)
(*   "tagLazyLazy"  <LazyLoadImage src="a.png"                             *)
(*                    alt="<LazyLoadImage src='b.png'   />" />             *)
(*   "getStaticTpl" export async function getStaticProps() {               *)
(*                    return `export async function getStaticProps() { }` } *)
(*   "useEffectTpl" the block of _convert_to_use_effect around             *)
(*                    return `export async function getStaticProps() {     *)
(*                  with ` } after it                                      *)
(*   "useEffectTpl2" "useEffectTpl" with the export inside its try block   *)
(*                  replaced by a second block                             *)
(* Paths are sequences of path segments.                                   *)
(***************************************************************************)
EXTENDS Integers, Sequences, FiniteSets, TLC

\* How many times the user may press "Start Conversion".
MaxRuns == 1
\* How many files of the catalog a source project may hold.
MaxFiles == 3
\* The widest worker pool (ConversionConfig.threads) of the command line converter.
MaxThreads == 2

None == "None"

\* The conversion threads a behaviour may create: the MaxRuns starts of Spec
\* and the one more start of SpecRerun.
Runs == 1..(MaxRuns + 1)

(***************************************************************************)
(* The source trees: a project is a set of files of this catalog, scanned  *)
(* in catalog order.  pathWords are the keywords that occur as substrings  *)
(* of the lower-cased relative path.                                       *)
(***************************************************************************)
Catalog ==
  << [path |-> <<"package.json">>, name |-> "package.json", suffix |-> ".json",
      pathWords |-> {}, content |-> <<"text">>, readable |-> TRUE],
     [path |-> <<"components", "index.tsx">>, name |-> "index.tsx", suffix |-> ".tsx",
      pathWords |-> {"components"}, content |-> <<"impRouter", "tagImage">>, readable |-> TRUE],
     [path |-> <<"pages", "index.tsx">>, name |-> "index.tsx", suffix |-> ".tsx",
      pathWords |-> {"pages"}, content |-> <<"getStatic", "callPush", "tagDiv">>,
      readable |-> TRUE],
     [path |-> <<"node_modules", "next", "pages", "empty.js">>, name |-> "empty.js",
      suffix |-> ".js", pathWords |-> {"pages"}, content |-> <<>>, readable |-> TRUE],
     [path |-> <<"public", "logo.png">>, name |-> "logo.png", suffix |-> ".png",
      pathWords |-> {"public"}, content |-> <<"text">>, readable |-> FALSE],
     [path |-> <<"README.md">>, name |-> "README.md", suffix |-> ".md",
      pathWords |-> {}, content |-> <<"text">>, readable |-> TRUE] >>

FileIds == 1..Len(Catalog)

PackageJson == 1

\* ProjectAnalyzer.EXCLUDED_PATTERNS and should_skip_path of
\* nextjs_converterV2.py (nextjs_converter.py has neither).
EXCLUDED_PATTERNS == {"node_modules", ".next", ".git", "dist", "build",
                      "__pycache__", ".env"}
should_skip_path(path) == \E k \in 1..Len(path) : path[k] \in EXCLUDED_PATTERNS

\* The signature strings of _categorize_file that a token's lower-cased text holds.
TokenWords(t) ==
  CASE t \in {"tagDiv", "tagImage", "tagLazy", "tagImg"} -> {"<"}
    [] t \in {"impRRD3", "impRRD2", "impRRD3Reexp", "impRRD2Reexp"} -> {"react"}
    [] t = "handler" -> {"req,", "export default"}
    [] t = "children" -> {"children", "props.children"}
    [] t = "getStatic" -> {"getstaticprops"}
    [] OTHER -> {}

ContentWords(text) == UNION {TokenWords(text[i]) : i \in 1..Len(text)}

ConfigNames == {"next.config.js", "package.json", "tsconfig.json",
                "next-env.d.ts", "next-sitemap.config.js"}
StyleSuffixes == {".css", ".scss", ".sass", ".less"}
ScriptSuffixes == {".js", ".jsx", ".tsx", ".ts"}

\* A slip in the content branch: the test for pages made before the test for
\* components.
CategorizeScriptPagesFirst(f) ==
  LET w == ContentWords(f.content) IN
  IF "api" \in f.pathWords /\ w \cap {"req,", "res,", "response", "request"} # {}
    THEN "api_routes"
  ELSE IF "pages" \in f.pathWords \/ w \cap {"getstaticprops", "getserversideprops"} # {}
    THEN "pages"
  ELSE IF w \cap {"react", "export default", "<"} # {} /\ "components" \in f.pathWords
    THEN "components"
  ELSE IF "layout" \in f.pathWords \/ w \cap {"children", "props.children"} # {}
    THEN "layouts"
  ELSE None

\* The content branch of _categorize_file, taken for a script file that was read.
CategorizeScript(f) ==
  LET w == ContentWords(f.content) IN
  IF "api" \in f.pathWords /\ w \cap {"req,", "res,", "response", "request"} # {}
    THEN "api_routes"
  ELSE IF w \cap {"react", "export default", "<"} # {} /\ "components" \in f.pathWords
    THEN "components"
  ELSE IF "pages" \in f.pathWords \/ w \cap {"getstaticprops", "getserversideprops"} # {}
    THEN "pages"
  ELSE IF "layout" \in f.pathWords \/ w \cap {"children", "props.children"} # {}
    THEN "layouts"
  ELSE None

\* A slip in the except clause: after a failed read the path halves of the
\* tests for pages and layouts are still made.
_categorize_file_path_halves(f) ==
  IF f.name \in ConfigNames THEN "config_files"
  ELSE IF f.suffix \in StyleSuffixes THEN "styles"
  ELSE LET c == IF f.suffix \in ScriptSuffixes
                  THEN IF f.readable THEN CategorizeScript(f)
                       ELSE IF "pages" \in f.pathWords THEN "pages"
                       ELSE IF "layout" \in f.pathWords THEN "layouts"
                       ELSE None
                  ELSE None
       IN IF c # None THEN c
          ELSE IF f.pathWords \cap {"public", "assets"} # {} THEN "public_assets"
          ELSE None

\* _categorize_file: the name, the suffix, the tests on the content of a
\* script that could be read (a failed read is passed over), the asset test.
_categorize_file(f) ==
  IF f.name \in ConfigNames THEN "config_files"
  ELSE IF f.suffix \in StyleSuffixes THEN "styles"
  ELSE LET c == IF f.suffix \in ScriptSuffixes /\ f.readable
                  THEN CategorizeScript(f) ELSE None
       IN IF c # None THEN c
          ELSE IF f.pathWords \cap {"public", "assets"} # {} THEN "public_assets"
          ELSE None

\* The list-valued keys of stats, in the order the dict is built.
StatsKeys == <<"components", "pages", "layouts", "api_routes", "styles",
               "config_files", "public_assets">>

RECURSIVE SortedSeq(_)
SortedSeq(S) ==
  IF S = {} THEN <<>>
  ELSE LET m == CHOOSE x \in S : \A y \in S : x <= y
       IN <<m>> \o SortedSeq(S \ {m})

\* A slip in analyze: a component is listed under layouts as well.
IsCatTwice(i, c) ==
  \/ _categorize_file(Catalog[i]) = c
  \/ c = "layouts" /\ _categorize_file(Catalog[i]) = "components"

IsCat(i, c) == _categorize_file(Catalog[i]) = c

\* The dict {} that analyze returns when validation fails.  A validated project
\* holds package.json, a config file, so its stats never have every list empty.
EmptyStats == [c \in {StatsKeys[k] : k \in 1..Len(StatsKeys)} |-> <<>>]

\* ProjectAnalyzer.analyze: {} when validate_project fails (no package.json),
\* else one list of files per category, each in scan order.
analyze(proj) ==
  IF PackageJson \notin proj THEN EmptyStats
  ELSE [c \in {StatsKeys[k] : k \in 1..Len(StatsKeys)} |->
          SelectSeq(SortedSeq(proj), LAMBDA i : IsCat(i, c))]

RECURSIVE ConcatLists(_, _)
ConcatLists(st, k) ==
  IF k > Len(StatsKeys) THEN <<>>
  ELSE (IF StatsKeys[k] = "public_assets" THEN <<>> ELSE st[StatsKeys[k]])
       \o ConcatLists(st, k + 1)

\* The files _convert_files visits, in the order of its two nested loops.
Schedule(st) == ConcatLists(st, 1)

RECURSIVE SumLens(_, _)
SumLens(st, k) ==
  IF k > Len(StatsKeys) THEN 0 ELSE Len(st[StatsKeys[k]]) + SumLens(st, k + 1)

\* total_files of _convert_files: every list of the stats, public assets included.
TotalFiles(st) == SumLens(st, 1)

(***************************************************************************)
(* ProjectConverter: the four stages of convert_file, token by token.      *)
(***************************************************************************)
MapText(Op(_), text) == [i \in 1..Len(text) |-> Op(text[i])]

\* The pattern import\s+.*?\s+from\s+'next/router' starts at the first import
\* of a line and ends at the first from 'next/router' after it.
ImportToken(t) ==
  CASE t = "impRouter" -> "impRRD3"
    [] t = "impRouterReexp" -> "impRRD3Reexp"
    [] t \in {"impRRD3Reexp", "impRRD2Reexp"} -> "impRRD3"
    [] OTHER -> t
_convert_imports(text) == MapText(ImportToken, text)

\* One line of a file as the statements on it: "impOther" is
\* import React from 'react', "impRouter" is import { useRouter } from
\* 'next/router', "impRRD3" is the replacement, "stmt" is any other statement.
StartsImport(st) == st \in {"impOther", "impRouter", "impRRD3"}
EndsNextRouter(st) == st = "impRouter"

RECURSIVE FirstFrom(_, _, _)
FirstFrom(Test(_), line, i) ==
  IF i > Len(line) \/ Test(line[i]) THEN i ELSE FirstFrom(Test, line, i + 1)

\* re.sub of import\s+.*?\s+from\s+'next/router' on one line: a match starts
\* at the first `import` that has a from 'next/router' after it on the line
\* and ends at the first such from; the search goes on after the match.
RECURSIVE ImportLine(_)
ImportLine(line) ==
  LET i == FirstFrom(StartsImport, line, 1)
      j == FirstFrom(EndsNextRouter, line, i)
  IN IF j > Len(line) THEN line
     ELSE SubSeq(line, 1, i - 1) \o <<"impRRD3">>
            \o ImportLine(SubSeq(line, j + 1, Len(line)))

RoutingToken(t) == IF t = "callPush" THEN "callNav" ELSE t
_convert_routing(text) == MapText(RoutingToken, text)

\* The pattern <Image\s+([^>]*?)src=(...)\s*([^>]*?)/?> ends at the first ">"
\* after src, also when that ">" is inside the value of an attribute.
ComponentToken(t) ==
  CASE t = "tagImage" -> "tagLazy"
    [] t = "tagImageAlt" -> "tagLazyAlt"
    [] t = "tagLazyAlt" -> "tagLazyLazy"
    [] OTHER -> t
_convert_components(text) == MapText(ComponentToken, text)

\* The pattern export\s+async\s+function\s+getStaticProps\s*\([^)]*\)\s*{([^}]*)}
\* matches wherever that text stands, also inside a string of a function body.
DataFetchToken(t) ==
  CASE t = "getStatic" -> "useEffect"
    [] t = "getStaticTpl" -> "useEffectTpl"
    [] t = "useEffectTpl" -> "useEffectTpl2"
    [] OTHER -> t
_convert_data_fetching(text) == MapText(DataFetchToken, text)

\* _convert_to_use_effect(fetch_content): the generated state and effect, with
\* fetch_content as the first statements of its try block.
_convert_to_use_effect(fetch_content) == [try_block |-> fetch_content]

\* The first "}" of a text of braces and statements (past its end when it has none).
RECURSIVE FirstClose(_, _)
FirstClose(q, i) ==
  IF i > Len(q) \/ q[i] = "}" THEN i ELSE FirstClose(q, i + 1)

\* _convert_data_fetching on `export async function getStaticProps() {`, a
\* body and the `}` that ends the function: the group ([^}]*) of the pattern
\* is the text up to the first "}", the match ends there, and the match is
\* replaced by the effect made of the group.  What follows the match stays.
DataFetchExport(body) ==
  LET rest == body \o <<"}">>
      j == FirstClose(rest, 1)
  IN [effect |-> _convert_to_use_effect(SubSeq(rest, 1, j - 1)),
      after |-> SubSeq(rest, j + 1, Len(rest))]

\* A slip in convert_file: the routing stage is called before the import stage.
StagesRoutingFirst == <<"routing", "imports", "components", "data_fetching">>

\* The calls of convert_file, in the order of its statements.
Stages == <<"imports", "routing", "components", "data_fetching">>

\* self._convert_<stage>(content)
ApplyStage(stage, text) ==
  CASE stage = "imports" -> _convert_imports(text)
    [] stage = "routing" -> _convert_routing(text)
    [] stage = "components" -> _convert_components(text)
    [] OTHER -> _convert_data_fetching(text)

\* The value None where a text is expected.
NoText == <<"None">>

\* convert_file: None when the read raises, else the text after the four stages.
convert_file(f, readOk) ==
  IF ~(f.readable /\ readOk) THEN NoText
  ELSE _convert_data_fetching(_convert_components(_convert_routing(
         _convert_imports(f.content))))

\* Python truthiness of the value convert_file returned.
Truthy(c) == c # NoText /\ c # <<>>

\* A slip in target_file: the file's name alone under src.
TargetFileFlat(p) == <<"src", p[Len(p)]>>

\* target_file of _convert_files, relative to the target directory.
TargetFile(p) == <<"src">> \o p

(***************************************************************************)
(* converter.py: NextToReactConverter._transform_component and             *)
(* UIHashVerifier.                                                         *)
(***************************************************************************)
\* A slip in _transform_component: router.push calls rewritten as well.
TransformTokenCalls(t) ==
  CASE t = "impRouter" -> "impRRD2"
    [] t = "impRouterReexp" -> "impRRD2Reexp"
    [] t = "tagImage" -> "tagImg"
    [] t = "callPush" -> "callNav"
    [] OTHER -> t

TransformToken(t) ==
  CASE t = "impRouter" -> "impRRD2"
    [] t = "impRouterReexp" -> "impRRD2Reexp"
    [] t = "tagImage" -> "tagImg"
    [] OTHER -> t

\* No text of the catalog holds '.module.', so _preserve_css_modules is not run.
_transform_component(text) == MapText(TransformToken, text)

\* The matches of the pattern <.*?> in a token's text.
TagsOf(t) == IF t \in {"tagDiv", "tagImage", "tagLazy", "tagImg"} THEN <<t>> ELSE <<>>

RECURSIVE JoinTags(_)
JoinTags(text) == IF text = <<>> THEN <<>> ELSE TagsOf(Head(text)) \o JoinTags(Tail(text))

\* A slip in get_component_hash: the digest of the distinct matches.
get_component_hash_distinct(text) == {JoinTags(text)[k] : k \in 1..Len(JoinTags(text))}

\* get_component_hash: the MD5 digest of the joined matches, taken as free of
\* collisions: two digests are equal exactly when the joined matches are.
get_component_hash(text) == JoinTags(text)

\* verify_components: the first component of its result.
verify_components(original, converted) ==
  get_component_hash(original) = get_component_hash(converted)

\* difflib.unified_diff over the lines of the two texts, each token a line:
\* nothing when the lines are the same, else the two header lines, the lines of
\* the original marked "-" and those of the converted text marked "+".
unified_diff(original, converted) ==
  IF original = converted THEN <<>>
  ELSE <<(<<"---", "">>), (<<"+++", "">>)>>
         \o [i \in 1..Len(original) |-> <<"-", original[i]>>]
         \o [i \in 1..Len(converted) |-> <<"+", converted[i]>>]

\* verify_components: the second component of its result.
verify_diff(original, converted) ==
  IF get_component_hash(original) # get_component_hash(converted)
    THEN unified_diff(original, converted)
    ELSE <<>>

(***************************************************************************)
(* An <Image ...> tag is its attributes before src (prefix), the src       *)
(* attribute, and the attributes after it (suffix); an attribute is its    *)
(* name, its value and whether the value stands in quotes.                 *)
(***************************************************************************)
Attr(n, v, q) == [name |-> n, value |-> v, quoted |-> q]

SrcAttr == Attr("src", "a.png", TRUE)

\* re.search(r'<name>=['"]\d+['"]', prefix + suffix); the values of width and
\* height in the tags given are digits.
AttrMatch(attrs, n) == SelectSeq(attrs, LAMBDA a : a.name = n /\ a.quoted)

\* '<name>=<value>' with the quotes stripped, for the first match.
StyleProp(attrs, n) ==
  IF AttrMatch(attrs, n) = <<>> THEN <<>>
  ELSE <<Attr(n, Head(AttrMatch(attrs, n)).value, FALSE)>>

\* NextToReactConverter._convert_image_tag:
\* f'<img src={src} {style_str} loading="lazy" />'
_convert_image_tag(prefix, src, suffix) ==
  [tag |-> "img",
   attrs |-> <<src>> \o StyleProp(prefix \o suffix, "width")
               \o StyleProp(prefix \o suffix, "height")
               \o <<Attr("loading", "lazy", TRUE)>>]

\* The Image substitution of ProjectConverter._convert_components:
\* r'<LazyLoadImage src=\2 \1 \3 />'
ImageToLazyLoad(prefix, src, suffix) ==
  [tag |-> "LazyLoadImage", attrs |-> <<src>> \o prefix \o suffix]

\* The directory of the target tree that holds the files of a category.
CategoryDir(c) ==
  CASE c = "components" -> "components"
    [] c = "pages" -> "pages"
    [] c = "layouts" -> "layouts"
    [] c = "api_routes" -> "api"
    [] c = "styles" -> "styles"
    [] OTHER -> "other"

\* _get_output_path, which converter.py calls and does not define: the file's
\* relative path under the target directory of its category.
_get_output_path(f) == <<"src", CategoryDir(_categorize_file(f))>> \o f.path

\* analyze_project: metrics['total_files'].
CountedSuffixes == {".tsx", ".jsx", ".css", ".scss"}
total_files(proj) == Cardinality({i \in proj : Catalog[i].suffix \in CountedSuffixes})

\* target of _copy_public_assets, relative to the target directory:
\* 'public' / asset.replace('public/', '').
RECURSIVE DropPublicDirs(_)
DropPublicDirs(p) ==
  IF Len(p) <= 1 THEN p
  ELSE IF Head(p) = "public" THEN DropPublicDirs(Tail(p))
  ELSE <<Head(p)>> \o DropPublicDirs(Tail(p))

AssetTarget(p) == <<"public">> \o DropPublicDirs(p)

\* Every path of the target tree a run can create.
TargetPaths ==
  {TargetFile(Catalog[i].path) : i \in FileIds}
    \cup {AssetTarget(Catalog[i].path) : i \in FileIds}
    \cup {_get_output_path(Catalog[i]) : i \in FileIds}

\* No file at a path of the tree.
Absent == <<"absent">>

\* progress_var holds a float: the pair <<n, d>> is n / d.
Frac(n, d) == <<n, d>>
FracLeq(a, b) == a[1] * b[2] <= b[1] * a[2]

\* A slip in the progress value: the conversion phase counted down from 80.
ProgressAfterDown(processed, total) == Frac(80 * total - processed * 70, total)

\* The value _convert_files sets after `processed` files of `total`.
ProgressAfter(processed, total) == Frac(10 * total + processed * 70, total)

(***************************************************************************)
(* setup_react_project: the first step of it that fails, or "ok" when the  *)
(* target was emptied, the project was created (by create-react-app or by  *)
(* the npm init fallback), the dependencies were installed and the         *)
(* directories were prepared.                                              *)
(***************************************************************************)
SetupOutcomes == {"clean_failed", "scaffold_failed", "deps_failed",
                  "prepare_failed", "ok"}

\* A slip in setup_react_project: the result of install_dependencies ignored.
setup_react_project_lax(o) == o \in {"ok", "deps_failed"}

setup_react_project(o) == o = "ok"

\* The scaffolding collaborator (create-react-app or its fallback) succeeded.
ScaffoldOk(o) == o \in {"deps_failed", "prepare_failed", "ok"}
\* DependencyManager.install_dependencies returned True.
DepsOk(o) == o \in {"prepare_failed", "ok"}

VARIABLES
  project,            \* the files of the source directory
  conversion_active,  \* ConverterGUI.conversion_active
  convert_btn,        \* state of the Start button
  cancel_btn,         \* state of the Cancel button
  progress_var,       \* ConverterGUI.progress_var
  conversion_thread,  \* the run whose thread ConverterGUI.conversion_thread is
  dialog,             \* the GUI thread inside cancel_conversion
  pollers,            \* pending _check_conversion_status callbacks
  started,            \* number of runs started
  pc,                 \* where each run's conversion thread is
  project_stats,      \* local of _run_conversion
  pos,                \* index of _convert_files / _copy_public_assets in its list
  processed,          \* local of _convert_files
  converted_content,  \* local of _convert_files
  handle,             \* the open file f of _convert_files still names a file of the tree
  tree,               \* the target directory: text at each path, or Absent
  target_exists,      \* the target directory exists
  setup_outcome,      \* what setup_react_project met in each run
  written,            \* history: the <<run, file, path>> writes of converted text
  cancelled,          \* history: the runs alive when a cancel was confirmed
  running_at_cancel,  \* history: the <<run, file>> tasks running at that moment
  cleaned,            \* history: the runs alive when a cancel's rmtree removed the target
  log,                \* the per-file lines given to ConversionLogger.log
  cli_pc,             \* where convert_with_progress is ("off": the GUI runs)
  backup,             \* ConversionConfig.backup
  threads,            \* ConversionConfig.threads
  tasks,              \* NextToReactConverter.tasks: the files to convert
  task_pc,            \* where the pool's call of convert_component is, per task
  task_text,          \* converted_content of convert_component, per task
  result,             \* the first component of each future's result
  collected,          \* the number of futures convert_with_progress has read
  bar,                \* the steps the "Converting components..." bar advanced
  verified,           \* history: the <<run, file>> that verify_components passed
  status,             \* ConversionTask.status of each task
  fn_pc,              \* a function called on its own: "off", "input" or "done"
  fn_op,              \* which function is called
  fn_in,              \* its argument
  fn_out              \* what it returned

vars == <<project, conversion_active, convert_btn, cancel_btn, progress_var,
          conversion_thread, dialog, pollers, started, pc, project_stats, pos,
          processed, converted_content, handle, tree, target_exists,
          setup_outcome, written, cancelled, running_at_cancel, cleaned, log,
          cli_pc, backup, threads, tasks, task_pc, task_text, result, collected,
          bar, verified, status, fn_pc, fn_op, fn_in, fn_out>>

fnVars == <<fn_pc, fn_op, fn_in, fn_out>>

\* The fields of the tasks that are set when a task is built.
taskFields == <<status>>

cliVars == <<cli_pc, backup, threads, tasks, task_pc, task_text, result, collected,
             bar, verified, taskFields, fnVars>>

guiVars == <<conversion_active, convert_btn, cancel_btn, progress_var,
             conversion_thread, dialog, pollers, started>>
localVars == <<project_stats, pos, processed, converted_content>>
diskVars == <<handle, tree, target_exists>>
histVars == <<setup_outcome, written, cancelled, running_at_cancel, cleaned>>

TaskIds == 1..MaxFiles

\* The state before either program has run.
InitBase ==
  /\ project \in {P \in SUBSET FileIds : Cardinality(P) <= MaxFiles}
  /\ conversion_active = FALSE
  /\ convert_btn = "normal"
  /\ cancel_btn = "disabled"
  /\ progress_var = Frac(0, 1)
  /\ conversion_thread = 0
  /\ dialog = "none"
  /\ pollers = 0
  /\ started = 0
  /\ pc = [r \in Runs |-> "idle"]
  /\ project_stats = [r \in Runs |-> EmptyStats]
  /\ pos = [r \in Runs |-> 1]
  /\ processed = [r \in Runs |-> 0]
  /\ converted_content = [r \in Runs |-> NoText]
  /\ handle = [r \in Runs |-> FALSE]
  /\ tree = [p \in TargetPaths |-> Absent]
  /\ target_exists \in BOOLEAN
  /\ setup_outcome = [r \in Runs |-> "none"]
  /\ written = {}
  /\ cancelled = {}
  /\ running_at_cancel = {}
  /\ cleaned = {}
  /\ log = {}
  /\ task_pc = [i \in TaskIds |-> "none"]
  /\ task_text = [i \in TaskIds |-> NoText]
  /\ result = [i \in TaskIds |-> "none"]
  /\ collected = 0
  /\ bar = 0
  /\ verified = {}

\* No function is called on its own.
FnOff ==
  /\ fn_pc = "off"
  /\ fn_op = "none"
  /\ fn_in = <<>>
  /\ fn_out = <<>>

\* ConverterGUI() built and shown; the command line converter is not used.
Init ==
  /\ InitBase
  /\ FnOff
  /\ cli_pc = "off"
  /\ backup = FALSE
  /\ threads = 1
  /\ tasks = <<>>
  /\ status = [i \in TaskIds |-> "none"]

\* NextToReactConverter(config) built, tasks filled by its user with files of
\* the project, convert_with_progress about to be called.
InitCLI ==
  /\ InitBase
  /\ FnOff
  /\ cli_pc = "analyze"
  /\ backup \in BOOLEAN
  /\ threads \in 1..MaxThreads
  /\ tasks \in {SortedSeq(T) : T \in SUBSET project}
  /\ status = [i \in TaskIds |-> IF i <= Len(tasks) THEN "pending" ELSE "none"]

Alive(r) == pc[r] \notin {"idle", "dead"}

\* logger.log of a line that names a file (the other lines are not kept).
Log(r, msg, file) == log' = log \cup {[run |-> r, msg |-> msg, file |-> file]}

\* The <<run, file>> conversions started: the "Converting <file>..." lines.
Dispatched == {<<e.run, e.file>> : e \in {x \in log : x.msg = "Converting"}}

\* The file the conversion loop of run r is at.
Cur(r) == Schedule(project_stats[r])[pos[r]]

\* Run r is between the start of a file's conversion and the end of its write.
InTask(r) == pc[r] \in {"convert", "open", "fwrite"}

(***************************************************************************)
(* The GUI thread.                                                         *)
(***************************************************************************)
\* start_conversion, both directories chosen and the overwrite question accepted.
StartUpTo(limit) ==
  /\ convert_btn = "normal"
  /\ dialog = "none"
  /\ started < limit
  /\ LET r == started + 1 IN
       /\ started' = r
       /\ conversion_thread' = r
       /\ pc' = [pc EXCEPT ![r] = "analyze"]
  /\ convert_btn' = "disabled"
  /\ cancel_btn' = "normal"
  /\ conversion_active' = TRUE
  /\ progress_var' = Frac(0, 1)
  /\ pollers' = pollers + 1
  /\ written' = {}
  /\ cancelled' = {}
  /\ running_at_cancel' = {}
  /\ cleaned' = {}
  /\ log' = {}
  /\ setup_outcome' = [q \in Runs |-> "none"]
  /\ UNCHANGED <<cliVars, project, dialog, localVars, diskVars>>

\* The Start Conversion button pressed, at most MaxRuns times.
start_conversion == StartUpTo(MaxRuns)

\* The same button, pressed once more than that.
start_conversion_again == StartUpTo(MaxRuns + 1)

\* cancel_conversion up to its question: the Cancel button pressed during a run.
cancel_conversion_ask ==
  /\ cancel_btn = "normal"
  /\ dialog = "none"
  /\ conversion_active
  /\ dialog' = "confirm"
  /\ UNCHANGED <<cliVars, project, conversion_active, convert_btn, cancel_btn, progress_var,
                 conversion_thread, pollers, started, pc, localVars, diskVars,
                 histVars, log>>

\* cancel_conversion after the question: "yes" clears the flag, "no" returns.
cancel_conversion_answer ==
  /\ dialog = "confirm"
  /\ \E yes \in BOOLEAN :
       IF yes
         THEN /\ conversion_active' = FALSE
              /\ dialog' = "cleanup"
              /\ cancelled' = cancelled \cup {r \in Runs : Alive(r)}
              /\ running_at_cancel' =
                   running_at_cancel \cup {<<r, Cur(r)>> : r \in {q \in Runs : InTask(q)}}
         ELSE /\ dialog' = "none"
              /\ UNCHANGED <<conversion_active, cancelled, running_at_cancel>>
  /\ UNCHANGED <<cliVars, project, convert_btn, cancel_btn, progress_var, conversion_thread,
                 pollers, started, pc, localVars, diskVars, setup_outcome,
                 written, cleaned, log>>

\* A slip in the cleanup: nothing removed.
WithoutNothing(S) == tree

\* shutil.rmtree(target_dir): the paths left when it removed the set S.
Without(S) == [p \in TargetPaths |-> IF p \in S THEN Absent ELSE tree[p]]

Present == {p \in TargetPaths : tree[p] # Absent}

\* _cleanup_incomplete_conversion: rmtree removes the directory, or raises after
\* it removed some of the files.
_cleanup_incomplete_conversion ==
  /\ dialog = "cleanup"
  /\ dialog' = "none"
  /\ IF target_exists
       THEN \E ok \in BOOLEAN :
              IF ok
                THEN /\ tree' = Without(TargetPaths)
                     /\ target_exists' = FALSE
                     /\ handle' = [r \in Runs |-> FALSE]
                     /\ cleaned' = cleaned \cup {r \in cancelled : Alive(r)}
                ELSE /\ \E S \in SUBSET Present :
                          /\ tree' = Without(S)
                          /\ handle' = [r \in Runs |->
                                          handle[r] /\ TargetFile(Catalog[Cur(r)].path) \notin S]
                     /\ UNCHANGED <<target_exists, cleaned>>
       ELSE UNCHANGED <<diskVars, cleaned>>
  /\ UNCHANGED <<cliVars, project, conversion_active, convert_btn, cancel_btn, progress_var,
                 conversion_thread, pollers, started, pc, localVars, setup_outcome,
                 written, cancelled, running_at_cancel, log>>

\* _check_conversion_status once the thread is dead (while it is alive the
\* callback only schedules itself again).
_check_conversion_status ==
  /\ pollers > 0
  /\ pc[conversion_thread] = "dead"
  /\ pollers' = pollers - 1
  /\ convert_btn' = "normal"
  /\ cancel_btn' = "disabled"
  /\ conversion_active' = FALSE
  /\ UNCHANGED <<cliVars, project, progress_var, conversion_thread, dialog, started, pc,
                 localVars, diskVars, histVars, log>>

(***************************************************************************)
(* The conversion thread of run r: _run_conversion.                        *)
(***************************************************************************)
Goto(r, l) == pc' = [pc EXCEPT ![r] = l]

\* analyzer.analyze() and the test of its result.
Analyze(r) ==
  /\ pc[r] = "analyze"
  /\ LET st == analyze(project) IN
       /\ project_stats' = [project_stats EXCEPT ![r] = st]
       /\ IF st = EmptyStats THEN Goto(r, "fin1") ELSE Goto(r, "setup")
  /\ UNCHANGED <<cliVars, project, guiVars, pos, processed, converted_content, diskVars,
                 histVars, log>>

\* progress_var.set(10) and converter.setup_react_project(), which empties an
\* existing target directory or creates it, then runs the collaborators.
Setup(r) ==
  /\ pc[r] = "setup"
  /\ progress_var' = Frac(10, 1)
  /\ \E o \in SetupOutcomes :
       /\ setup_outcome' = [setup_outcome EXCEPT ![r] = o]
       /\ IF o = "clean_failed"
            THEN target_exists /\ UNCHANGED diskVars
            ELSE /\ tree' = Without(TargetPaths)
                 /\ handle' = [q \in Runs |-> FALSE]
                 /\ target_exists' = TRUE
       /\ IF setup_react_project(o) THEN Goto(r, "gate") ELSE Goto(r, "fin1")
  /\ UNCHANGED <<cliVars, project, conversion_active, convert_btn, cancel_btn, conversion_thread,
                 dialog, pollers, started, localVars, written, cancelled,
                 running_at_cancel, cleaned, log>>

\* `if not self.conversion_active: return` before _convert_files.
Gate(r) ==
  /\ pc[r] = "gate"
  /\ IF conversion_active THEN Goto(r, "poll") ELSE Goto(r, "fin1")
  /\ UNCHANGED <<cliVars, project, guiVars, localVars, diskVars, histVars, log>>

\* A slip in the loop of _convert_files: the flag is not polled.
PollNoFlag(r) ==
  /\ pc[r] = "poll"
  /\ IF pos[r] > Len(Schedule(project_stats[r]))
       THEN Goto(r, "assetsCheck") /\ UNCHANGED log
       ELSE Goto(r, "convert") /\ Log(r, "Converting", Cur(r))
  /\ UNCHANGED <<cliVars, project, guiVars, localVars, diskVars, histVars>>

\* _convert_files, head of the loop: the next file of the schedule, the poll of
\* the flag, and the start of that file's conversion.
Poll(r) ==
  /\ pc[r] = "poll"
  /\ IF pos[r] > Len(Schedule(project_stats[r]))
       THEN Goto(r, "assetsCheck") /\ UNCHANGED log
       ELSE IF ~conversion_active
         THEN Goto(r, "assetsCheck") /\ UNCHANGED log
         ELSE Goto(r, "convert") /\ Log(r, "Converting", Cur(r))
  /\ UNCHANGED <<cliVars, project, guiVars, localVars, diskVars, histVars>>

\* converter.convert_file(source_file): the read may raise, which it logs.
Convert(r) ==
  /\ pc[r] = "convert"
  /\ \E readOk \in BOOLEAN :
       LET c == convert_file(Catalog[Cur(r)], readOk) IN
         /\ converted_content' = [converted_content EXCEPT ![r] = c]
         /\ IF c = NoText THEN Log(r, "Error converting", Cur(r)) ELSE UNCHANGED log
         /\ IF Truthy(c) THEN Goto(r, "open") ELSE Goto(r, "progress")
  /\ UNCHANGED <<cliVars, project, guiVars, project_stats, pos, processed, diskVars, histVars>>

\* The except and finally clauses of _run_conversion take over.
Raise(r) == Goto(r, "fin1") /\ Log(r, "Conversion failed", Cur(r))

\* os.makedirs(target_file.parent) and open(target_file, 'w'): the file exists
\* and is empty, or the call raises.
Open(r) ==
  /\ pc[r] = "open"
  /\ \E ok \in BOOLEAN :
       IF ok
         THEN /\ tree' = [tree EXCEPT ![TargetFile(Catalog[Cur(r)].path)] = <<>>]
              /\ handle' = [handle EXCEPT ![r] = TRUE]
              /\ target_exists' = TRUE
              /\ Goto(r, "fwrite")
              /\ UNCHANGED log
         ELSE Raise(r) /\ UNCHANGED diskVars
  /\ UNCHANGED <<cliVars, project, guiVars, localVars, histVars>>

\* f.write(converted_content) and the close of the file; the text reaches the
\* tree unless the file was removed since it was opened.
Fwrite(r) ==
  /\ pc[r] = "fwrite"
  /\ handle' = [handle EXCEPT ![r] = FALSE]
  /\ \E ok \in BOOLEAN :
       IF ok
         THEN /\ tree' = IF handle[r]
                           THEN [tree EXCEPT ![TargetFile(Catalog[Cur(r)].path)] =
                                   converted_content[r]]
                           ELSE tree
              /\ written' = written \cup {<<r, Cur(r), TargetFile(Catalog[Cur(r)].path)>>}
              /\ Goto(r, "progress")
              /\ UNCHANGED log
         ELSE Raise(r) /\ UNCHANGED <<tree, written>>
  /\ UNCHANGED <<cliVars, project, guiVars, localVars, target_exists, setup_outcome,
                 cancelled, running_at_cancel, cleaned>>

\* processed += 1 and progress_var.set(10 + (processed / total_files * 70)).
Progress(r) ==
  /\ pc[r] = "progress"
  /\ processed' = [processed EXCEPT ![r] = @ + 1]
  /\ progress_var' = ProgressAfter(processed[r] + 1, TotalFiles(project_stats[r]))
  /\ pos' = [pos EXCEPT ![r] = @ + 1]
  /\ Goto(r, "poll")
  /\ UNCHANGED <<cliVars, project, conversion_active, convert_btn, cancel_btn, conversion_thread,
                 dialog, pollers, started, project_stats, converted_content, diskVars,
                 histVars, log>>

\* `if self.conversion_active:` before _copy_public_assets.
AssetsCheck(r) ==
  /\ pc[r] = "assetsCheck"
  /\ pos' = [pos EXCEPT ![r] = 1]
  /\ IF conversion_active THEN Goto(r, "assetPoll") ELSE Goto(r, "doneCheck")
  /\ UNCHANGED <<cliVars, project, guiVars, project_stats, processed, converted_content,
                 diskVars, histVars, log>>

Assets(r) == project_stats[r]["public_assets"]

\* _copy_public_assets, head of the loop, and progress_var.set(100) after it.
AssetPoll(r) ==
  /\ pc[r] = "assetPoll"
  /\ IF pos[r] > Len(Assets(r))
       THEN progress_var' = Frac(100, 1) /\ Goto(r, "doneCheck")
       ELSE IF ~conversion_active
         THEN UNCHANGED progress_var /\ Goto(r, "doneCheck")
         ELSE UNCHANGED progress_var /\ Goto(r, "assetCopy")
  /\ UNCHANGED <<cliVars, project, conversion_active, convert_btn, cancel_btn, conversion_thread,
                 dialog, pollers, started, localVars, diskVars, histVars, log>>

\* os.makedirs and shutil.copy2 of one asset; an error ends the copying.
AssetCopy(r) ==
  /\ pc[r] = "assetCopy"
  /\ LET a == Catalog[Assets(r)[pos[r]]] IN
     \E ok \in BOOLEAN :
       IF ok
         THEN /\ tree' = [tree EXCEPT ![AssetTarget(a.path)] = a.content]
              /\ target_exists' = TRUE
              /\ pos' = [pos EXCEPT ![r] = @ + 1]
              /\ Goto(r, "assetPoll")
         ELSE /\ Goto(r, "doneCheck")
              /\ UNCHANGED <<tree, target_exists, pos>>
  /\ UNCHANGED <<cliVars, project, guiVars, project_stats, processed, converted_content,
                 handle, histVars, log>>

\* `if self.conversion_active:` before the success message.
DoneCheck(r) ==
  /\ pc[r] = "doneCheck"
  /\ Goto(r, "fin1")
  /\ UNCHANGED <<cliVars, project, guiVars, localVars, diskVars, histVars, log>>

\* finally: self.convert_btn.config(state=tk.NORMAL)
Finally1(r) ==
  /\ pc[r] = "fin1"
  /\ convert_btn' = "normal"
  /\ Goto(r, "fin2")
  /\ UNCHANGED <<cliVars, project, conversion_active, cancel_btn, progress_var, conversion_thread,
                 dialog, pollers, started, localVars, diskVars, histVars, log>>

\* finally: self.cancel_btn.config(state=tk.DISABLED)
Finally2(r) ==
  /\ pc[r] = "fin2"
  /\ cancel_btn' = "disabled"
  /\ Goto(r, "fin3")
  /\ UNCHANGED <<cliVars, project, conversion_active, convert_btn, progress_var, conversion_thread,
                 dialog, pollers, started, localVars, diskVars, histVars, log>>

\* finally: self.conversion_active = False, and the thread ends (its locals
\* are gone with it).
Finally3(r) ==
  /\ pc[r] = "fin3"
  /\ conversion_active' = FALSE
  /\ Goto(r, "dead")
  /\ project_stats' = [project_stats EXCEPT ![r] = EmptyStats]
  /\ pos' = [pos EXCEPT ![r] = 1]
  /\ processed' = [processed EXCEPT ![r] = 0]
  /\ converted_content' = [converted_content EXCEPT ![r] = NoText]
  /\ UNCHANGED <<cliVars, project, convert_btn, cancel_btn, progress_var, conversion_thread,
                 dialog, pollers, started, diskVars, histVars, log>>

Next ==
  \/ start_conversion
  \/ cancel_conversion_ask
  \/ cancel_conversion_answer
  \/ _cleanup_incomplete_conversion
  \/ _check_conversion_status
  \/ \E r \in Runs : Analyze(r)
  \/ \E r \in Runs : Setup(r)
  \/ \E r \in Runs : Gate(r)
  \/ \E r \in Runs : Poll(r)
  \/ \E r \in Runs : Convert(r)
  \/ \E r \in Runs : Open(r)
  \/ \E r \in Runs : Fwrite(r)
  \/ \E r \in Runs : Progress(r)
  \/ \E r \in Runs : AssetsCheck(r)
  \/ \E r \in Runs : AssetPoll(r)
  \/ \E r \in Runs : AssetCopy(r)
  \/ \E r \in Runs : DoneCheck(r)
  \/ \E r \in Runs : Finally1(r)
  \/ \E r \in Runs : Finally2(r)
  \/ \E r \in Runs : Finally3(r)

Spec == Init /\ [][Next]_vars

(***************************************************************************)
(* The GUI used for one more conversion of a small project: package.json   *)
(* and the files that are only copied.                                     *)
(***************************************************************************)
RerunProject ==
  {i \in FileIds : _categorize_file(Catalog[i]) \in {"config_files", "public_assets"}}

InitRerun == Init /\ project = RerunProject

NextRerun ==
  \/ start_conversion_again
  \/ cancel_conversion_ask
  \/ cancel_conversion_answer
  \/ _cleanup_incomplete_conversion
  \/ _check_conversion_status
  \/ \E r \in Runs : Analyze(r)
  \/ \E r \in Runs : Setup(r)
  \/ \E r \in Runs : Gate(r)
  \/ \E r \in Runs : Poll(r)
  \/ \E r \in Runs : Convert(r)
  \/ \E r \in Runs : Open(r)
  \/ \E r \in Runs : Fwrite(r)
  \/ \E r \in Runs : Progress(r)
  \/ \E r \in Runs : AssetsCheck(r)
  \/ \E r \in Runs : AssetPoll(r)
  \/ \E r \in Runs : AssetCopy(r)
  \/ \E r \in Runs : DoneCheck(r)
  \/ \E r \in Runs : Finally1(r)
  \/ \E r \in Runs : Finally2(r)
  \/ \E r \in Runs : Finally3(r)

SpecRerun == InitRerun /\ [][NextRerun]_vars

(***************************************************************************)
(* The GUI when a call of convert_file may never return.  A thread that    *)
(* can take a step is scheduled in the end (weak fairness of its steps);   *)
(* nothing makes the user press a button.                                  *)
(***************************************************************************)
\* converter.convert_file(source_file) does not return: the thread stays in
\* the call for good.
ConvertHangs(r) ==
  /\ pc[r] = "convert"
  /\ Goto(r, "hung")
  /\ UNCHANGED <<cliVars, project, guiVars, localVars, diskVars, histVars, log>>

\* A step of the conversion thread of run r that returns.
ThreadStep(r) ==
  \/ Analyze(r) \/ Setup(r) \/ Gate(r) \/ Poll(r) \/ Convert(r) \/ Open(r)
  \/ Fwrite(r) \/ Progress(r) \/ AssetsCheck(r) \/ AssetPoll(r) \/ AssetCopy(r)
  \/ DoneCheck(r) \/ Finally1(r) \/ Finally2(r) \/ Finally3(r)

NextHang ==
  \/ Next
  \/ \E r \in Runs : ConvertHangs(r)

SpecHang == Init /\ [][NextHang]_vars /\ \A r \in Runs : WF_vars(ThreadStep(r))

(***************************************************************************)
(* converter.py: convert_with_progress and the pool's calls of             *)
(* convert_component.  Its writes are recorded under run 0.                *)
(***************************************************************************)
\* What no step of the command line converter assigns: the state of the GUI,
\* the functions called on their own, and the fields of the built tasks.
guiSide == <<guiVars, pc, localVars, handle, setup_outcome, cancelled,
             running_at_cancel, cleaned, fnVars, taskFields>>

CliGoto(l) == cli_pc' = l

\* metrics = self.analyze_project()
CliAnalyze ==
  /\ cli_pc = "analyze"
  /\ CliGoto("backup")
  /\ UNCHANGED <<project, guiSide, tree, target_exists, written, log, backup, threads,
                 tasks, task_pc, task_text, result, collected, bar, verified>>

\* self.create_backup(): with config.backup set it reads time.time(), and the
\* module does not import time, so the except clause of convert_with_progress
\* ends the run.
CliBackup ==
  /\ cli_pc = "backup"
  /\ IF backup THEN CliGoto("failed") ELSE CliGoto("setup")
  /\ UNCHANGED <<project, guiSide, tree, target_exists, written, log, backup, threads,
                 tasks, task_pc, task_text, result, collected, bar, verified>>

\* self.setup_directory_structure(): os.makedirs of the tree, which may raise.
CliSetup ==
  /\ cli_pc = "setup"
  /\ \E ok \in BOOLEAN :
       IF ok
         THEN target_exists' = TRUE /\ CliGoto("submit")
         ELSE UNCHANGED target_exists /\ CliGoto("failed")
  /\ UNCHANGED <<project, guiSide, tree, written, log, backup, threads, tasks, task_pc,
                 task_text, result, collected, bar, verified>>

\* The loop of executor.submit(self.convert_component, task).
CliSubmit ==
  /\ cli_pc = "submit"
  /\ task_pc' = [i \in TaskIds |-> IF i <= Len(tasks) THEN "queued" ELSE "none"]
  /\ CliGoto("collect")
  /\ UNCHANGED <<project, guiSide, tree, target_exists, written, log, backup, threads,
                 tasks, task_text, result, collected, bar, verified>>

Running == {i \in TaskIds : task_pc[i] \in {"read", "transform", "write"}}

\* A free worker of the pool takes the oldest queued task.
TaskStart(i) ==
  /\ task_pc[i] = "queued"
  /\ \A j \in TaskIds : j < i => task_pc[j] # "queued"
  /\ Cardinality(Running) < threads
  /\ task_pc' = [task_pc EXCEPT ![i] = "read"]
  /\ UNCHANGED <<project, guiSide, tree, target_exists, written, log, cli_pc, backup,
                 threads, tasks, task_text, result, collected, bar, verified>>

\* The task returns (False, error).
TaskFails(i) ==
  /\ task_pc' = [task_pc EXCEPT ![i] = "done"]
  /\ result' = [result EXCEPT ![i] = "failed"]

\* convert_component: open(task.file_path) and f.read().
TaskRead(i) ==
  /\ task_pc[i] = "read"
  /\ \E ok \in BOOLEAN :
       IF ok /\ Catalog[tasks[i]].readable
         THEN /\ task_text' = [task_text EXCEPT ![i] = Catalog[tasks[i]].content]
              /\ task_pc' = [task_pc EXCEPT ![i] = "transform"]
              /\ UNCHANGED result
         ELSE TaskFails(i) /\ UNCHANGED task_text
  /\ UNCHANGED <<project, guiSide, tree, target_exists, written, log, cli_pc, backup,
                 threads, tasks, collected, bar, verified>>

\* convert_component: _transform_component, verify_components and the return
\* on a UI mismatch.
TaskVerify(i) ==
  /\ task_pc[i] = "transform"
  /\ LET c == _transform_component(task_text[i]) IN
       IF verify_components(task_text[i], c)
         THEN /\ verified' = verified \cup {<<0, tasks[i]>>}
              /\ task_text' = [task_text EXCEPT ![i] = c]
              /\ task_pc' = [task_pc EXCEPT ![i] = "write"]
              /\ UNCHANGED result
         ELSE TaskFails(i) /\ UNCHANGED <<verified, task_text>>
  /\ UNCHANGED <<project, guiSide, tree, target_exists, written, log, cli_pc, backup,
                 threads, tasks, collected, bar>>

\* convert_component: _get_output_path, os.makedirs, and the write of the
\* converted text, any of which may raise.
TaskWrite(i) ==
  /\ task_pc[i] = "write"
  /\ \E ok \in BOOLEAN :
       IF ok
         THEN /\ tree' = [tree EXCEPT ![_get_output_path(Catalog[tasks[i]])] = task_text[i]]
              /\ target_exists' = TRUE
              /\ written' = written \cup
                   {<<0, tasks[i], _get_output_path(Catalog[tasks[i]])>>}
              /\ task_pc' = [task_pc EXCEPT ![i] = "done"]
              /\ result' = [result EXCEPT ![i] = "ok"]
         ELSE TaskFails(i) /\ UNCHANGED <<tree, target_exists, written>>
  /\ UNCHANGED <<project, guiSide, log, cli_pc, backup, threads, tasks, task_text,
                 collected, bar, verified>>

\* future.result() of the next future, the report of its error, and
\* self.progress.advance(conversion_task).
CliCollect ==
  /\ cli_pc = "collect"
  /\ collected < Len(tasks)
  /\ task_pc[collected + 1] = "done"
  /\ IF result[collected + 1] = "failed"
       THEN Log(0, "Error converting", tasks[collected + 1])
       ELSE UNCHANGED log
  /\ bar' = bar + 1
  /\ collected' = collected + 1
  /\ UNCHANGED <<project, guiSide, tree, target_exists, written, cli_pc, backup, threads,
                 tasks, task_pc, task_text, result, verified>>

\* After the pool: generate_react_router_config, generate_package_json (called,
\* not defined in converter.py) and generate_webpack_config, which end the run
\* with the success message or in the except clause.
CliGenerate ==
  /\ cli_pc = "collect"
  /\ collected = Len(tasks)
  /\ \E ok \in BOOLEAN : IF ok THEN CliGoto("done") ELSE CliGoto("failed")
  /\ UNCHANGED <<project, guiSide, tree, target_exists, written, log, backup, threads,
                 tasks, task_pc, task_text, result, collected, bar, verified>>

NextCLI ==
  \/ CliAnalyze
  \/ CliBackup
  \/ CliSetup
  \/ CliSubmit
  \/ \E i \in TaskIds : TaskStart(i)
  \/ \E i \in TaskIds : TaskRead(i)
  \/ \E i \in TaskIds : TaskVerify(i)
  \/ \E i \in TaskIds : TaskWrite(i)
  \/ CliCollect
  \/ CliGenerate

SpecCLI == InitCLI /\ [][NextCLI]_vars

(***************************************************************************)
(* The functions of the two programs called on their own, on every         *)
(* argument of a bounded set.                                              *)
(***************************************************************************)
\* The longest text given to a function, in tokens.
MaxLen == 2

Tokens == {"text", "impRouter", "impRRD3", "impRRD2", "tagDiv", "tagImage",
           "tagLazy", "tagImg", "callPush", "callNav", "getStatic", "useEffect",
           "impRouterReexp", "impRRD3Reexp", "impRRD2Reexp", "handler", "children"}

Texts == UNION {[1..n -> Tokens] : n \in 0..MaxLen}

\* The files given to _categorize_file: a name, the keywords in its path, a
\* content of at most one token, readable as text or not.
FileNames == {"package.json", "index.tsx", "main.css", "logo.png"}
SuffixOf(n) ==
  CASE n = "package.json" -> ".json"
    [] n = "index.tsx" -> ".tsx"
    [] n = "main.css" -> ".css"
    [] OTHER -> ".png"
PathKeywords == {"api", "components", "pages", "layout", "public"}
FileContents == {<<>>} \cup {<<t>> : t \in Tokens}
Files ==
  {[path |-> <<n>>, name |-> n, suffix |-> SuffixOf(n), pathWords |-> w,
    content |-> c, readable |-> rd] :
      n \in FileNames, w \in SUBSET PathKeywords, c \in FileContents, rd \in BOOLEAN}

\* The <Image> tags given to the image conversions: src among any of these
\* attributes, each at most once, in any order.
OtherAttrs == {Attr("alt", "logo", TRUE), Attr("width", "200", TRUE),
               Attr("height", "100", TRUE)}
AttrLists ==
  UNION {{q \in [1..n -> OtherAttrs] : \A i, j \in 1..n : i # j => q[i] # q[j]} :
           n \in 0..Cardinality(OtherAttrs)}
ImageTags ==
  {[prefix |-> SubSeq(x[1], 1, x[2]), suffix |-> SubSeq(x[1], x[2] + 1, Len(x[1]))] :
     x \in {y \in AttrLists \X (0..Cardinality(OtherAttrs)) : y[2] <= Len(y[1])}}

\* A markup element of the converted text deleted or written twice.
Fault(text, kind, at) ==
  IF kind = "delete"
    THEN SubSeq(text, 1, at - 1) \o SubSeq(text, at + 1, Len(text))
    ELSE SubSeq(text, 1, at) \o SubSeq(text, at, Len(text))

\* The bodies of the exported data-fetching functions: statements and braces,
\* the braces balanced.
RECURSIVE Depth(_, _)
Depth(q, n) ==
  IF n = 0 THEN 0
  ELSE Depth(q, n - 1) + (IF q[n] = "{" THEN 1 ELSE IF q[n] = "}" THEN -1 ELSE 0)

Bodies ==
  {q \in UNION {[1..n -> {"stmt", "{", "}"}] : n \in 0..MaxLen} :
     /\ Depth(q, Len(q)) = 0
     /\ \A n \in 1..Len(q) : Depth(q, n) >= 0}

\* The lines given to the import stage statement by statement.
Lines == UNION {[1..n -> {"impOther", "impRouter", "stmt"}] : n \in 0..MaxLen}

\* The texts given to one stage twice: the constructs of the routing,
\* component and data-fetching stages and what the stages make of them.
StageTokens == {"text", "callPush", "callNav", "tagImage", "tagLazy", "tagImageAlt",
                "tagLazyAlt", "getStatic", "useEffect", "getStaticTpl", "useEffectTpl"}
StageInputs ==
  {[stage |-> x[1], text |-> x[2]] :
     x \in {"routing", "components", "data_fetching"}
            \X UNION {[1..n -> StageTokens] : n \in 0..MaxLen}}

\* The lists of public assets given to _copy_public_assets: two files of the
\* same name below directories named public or assets.
AssetPaths ==
  {d \o <<"x.png">> : d \in UNION {[1..n -> {"public", "assets"}] : n \in 1..MaxLen}}
AssetLists == {q \in AssetPaths \X AssetPaths : q[1] # q[2]}

FaultInputs ==
  {[text |-> x[1], kind |-> x[2], at |-> x[3]] :
     x \in {y \in Texts \X {"delete", "duplicate"} \X (1..MaxLen) :
              /\ y[3] <= Len(y[1])
              /\ TagsOf(_transform_component(y[1])[y[3]]) # <<>>}}

FnOps == {"categorize", "analyze", "rewrite_gui", "rewrite_cli", "fault",
          "imports", "image_gui", "image_cli", "stages", "data_fetching",
          "import_line", "stage_twice", "copy_assets"}

FnInputs(op) ==
  CASE op = "categorize" -> Files
    [] op = "analyze" -> SUBSET FileIds
    [] op = "fault" -> FaultInputs
    [] op \in {"image_gui", "image_cli"} -> ImageTags
    [] op = "data_fetching" -> Bodies
    [] op = "import_line" -> Lines
    [] op = "stage_twice" -> StageInputs
    [] op = "copy_assets" -> AssetLists
    [] OTHER -> Texts

\* Neither program runs; one function is about to be called on one argument.
InitPure ==
  /\ InitBase
  /\ project = {}
  /\ target_exists = FALSE
  /\ cli_pc = "off"
  /\ backup = FALSE
  /\ threads = 1
  /\ tasks = <<>>
  /\ status = [i \in TaskIds |-> "none"]
  /\ fn_pc = "input"
  /\ fn_out = <<>>
  /\ \E op \in FnOps : fn_op = op /\ fn_in \in FnInputs(op)

progVars == <<project, guiVars, pc, localVars, diskVars, histVars, log, cli_pc,
              backup, threads, tasks, task_pc, task_text, result, collected, bar,
              verified, taskFields>>

\* _categorize_file(rel_path), called twice on the same file.
Categorize ==
  /\ fn_pc = "input"
  /\ fn_op = "categorize"
  /\ fn_out' = Append(fn_out, _categorize_file(fn_in))
  /\ fn_pc' = IF Len(fn_out) = 1 THEN "done" ELSE "input"
  /\ UNCHANGED <<progVars, fn_op, fn_in>>

\* ProjectAnalyzer(source_dir).analyze()
AnalyzeProject ==
  /\ fn_pc = "input"
  /\ fn_op = "analyze"
  /\ fn_out' = analyze(fn_in)
  /\ fn_pc' = "done"
  /\ UNCHANGED <<progVars, fn_op, fn_in>>

\* The four stages of convert_file, or _transform_component, on a text that
\* was read, and verify_components of the text and the result.
RewriteVerify ==
  /\ fn_pc = "input"
  /\ fn_op \in {"rewrite_gui", "rewrite_cli"}
  /\ LET c == IF fn_op = "rewrite_gui"
                THEN convert_file([content |-> fn_in, readable |-> TRUE], TRUE)
                ELSE _transform_component(fn_in)
     IN fn_out' = [converted |-> c,
                   equal |-> verify_components(fn_in, c),
                   diff |-> verify_diff(fn_in, c)]
  /\ fn_pc' = "done"
  /\ UNCHANGED <<progVars, fn_op, fn_in>>

\* verify_components of a text and of its conversion with one markup element
\* deleted or duplicated.
FaultInject ==
  /\ fn_pc = "input"
  /\ fn_op = "fault"
  /\ LET c == Fault(_transform_component(fn_in.text), fn_in.kind, fn_in.at)
     IN fn_out' = [converted |-> c,
                   equal |-> verify_components(fn_in.text, c),
                   diff |-> verify_diff(fn_in.text, c)]
  /\ fn_pc' = "done"
  /\ UNCHANGED <<progVars, fn_op, fn_in>>

\* _convert_imports on a text, then on its own result.
ImportStage ==
  /\ fn_pc = "input"
  /\ fn_op = "imports"
  /\ fn_out' = Append(fn_out, _convert_imports(IF fn_out = <<>> THEN fn_in
                                                 ELSE fn_out[Len(fn_out)]))
  /\ fn_pc' = IF Len(fn_out) = 1 THEN "done" ELSE "input"
  /\ UNCHANGED <<progVars, fn_op, fn_in>>

\* The conversion of one <Image> tag by either program.
ConvertImage ==
  /\ fn_pc = "input"
  /\ fn_op \in {"image_gui", "image_cli"}
  /\ fn_out' = IF fn_op = "image_gui"
                 THEN ImageToLazyLoad(fn_in.prefix, SrcAttr, fn_in.suffix)
                 ELSE _convert_image_tag(fn_in.prefix, SrcAttr, fn_in.suffix)
  /\ fn_pc' = "done"
  /\ UNCHANGED <<progVars, fn_op, fn_in>>

\* convert_file on a text that was read, one statement at a time: each
\* `content = self._convert_<stage>(content)` is kept with the stage's name.
ConvertFileStage ==
  /\ fn_pc = "input"
  /\ fn_op = "stages"
  /\ LET k == Len(fn_out) + 1
         content == IF k = 1 THEN fn_in ELSE fn_out[k - 1].text
     IN /\ fn_out' = Append(fn_out, [stage |-> Stages[k],
                                     text |-> ApplyStage(Stages[k], content)])
        /\ fn_pc' = IF k = Len(Stages) THEN "done" ELSE "input"
  /\ UNCHANGED <<progVars, fn_op, fn_in>>

\* _convert_data_fetching on a text that is one getStaticProps export.
ConvertDataFetching ==
  /\ fn_pc = "input"
  /\ fn_op = "data_fetching"
  /\ fn_out' = DataFetchExport(fn_in)
  /\ fn_pc' = "done"
  /\ UNCHANGED <<progVars, fn_op, fn_in>>

\* _convert_imports on a text of one line.
ConvertImportLine ==
  /\ fn_pc = "input"
  /\ fn_op = "import_line"
  /\ fn_out' = ImportLine(fn_in)
  /\ fn_pc' = "done"
  /\ UNCHANGED <<progVars, fn_op, fn_in>>

\* One of _convert_routing, _convert_components, _convert_data_fetching on a
\* text, then on its own result.
StageTwice ==
  /\ fn_pc = "input"
  /\ fn_op = "stage_twice"
  /\ fn_out' = Append(fn_out, ApplyStage(fn_in.stage, IF fn_out = <<>> THEN fn_in.text
                                                       ELSE fn_out[Len(fn_out)]))
  /\ fn_pc' = IF Len(fn_out) = 1 THEN "done" ELSE "input"
  /\ UNCHANGED <<progVars, fn_op, fn_in>>

\* _copy_public_assets, one asset of the list after the other: the target
\* each copy2 writes.
CopyAssets ==
  /\ fn_pc = "input"
  /\ fn_op = "copy_assets"
  /\ fn_out' = Append(fn_out, AssetTarget(fn_in[Len(fn_out) + 1]))
  /\ fn_pc' = IF Len(fn_out) + 1 = Len(fn_in) THEN "done" ELSE "input"
  /\ UNCHANGED <<progVars, fn_op, fn_in>>

NextPure ==
  \/ ConvertFileStage
  \/ CopyAssets
  \/ StageTwice
  \/ ConvertImportLine
  \/ ConvertDataFetching
  \/ Categorize
  \/ AnalyzeProject
  \/ RewriteVerify
  \/ FaultInject
  \/ ImportStage
  \/ ConvertImage

SpecPure == InitPure /\ [][NextPure]_vars

TypeOK ==
  /\ project \subseteq FileIds
  /\ conversion_active \in BOOLEAN
  /\ pollers \in 0..(MaxRuns + 1)
  /\ started \in 0..(MaxRuns + 1)
  /\ \A r \in Runs : pos[r] \in 1..(Len(Catalog) + 1)

(***************************************************************************)
(* Properties.                                                             *)
(***************************************************************************)
FinPcs == {"fin1", "fin2", "fin3"}

Range(q) == {q[i] : i \in 1..Len(q)}

\* The files of run r whose conversion was started, and those it wrote.
DispatchedOf(r) == {d[2] : d \in {x \in Dispatched : x[1] = r}}
WrittenOf(r) == {w[2] : w \in {x \in written : x[1] = r}}

\* The files of run r whose conversion raised an I/O error.
IOErrorsOf(r) ==
  {e.file : e \in {x \in log : x.run = r /\ x.msg \in {"Error converting", "Conversion failed"}}}

\* C1: converted text is written to the output tree only for a file that
\* verify_components found equal to its original, on every path that writes.
C1_WriteOnlyAfterVerify ==
  \A w \in written : <<w[1], w[2]>> \in verified

\* C2: if reading, converting or writing one file raises an I/O error, every
\* other scheduled file is still processed: a run that was not cancelled and
\* met an I/O error reaches its end with every scheduled file started.
C2_BatchIsolation ==
  \A r \in Runs :
    (pc[r] \in FinPcs /\ r \notin cancelled /\ IOErrorsOf(r) # {})
      => DispatchedOf(r) = Range(Schedule(project_stats[r]))

C4_RunningTaskOutputKept ==
  \A t \in running_at_cancel :
    \A w \in written :
      (w[1] = t[1] /\ w[2] = t[2]) => tree[w[3]] = convert_file(Catalog[w[2]], TRUE)

C6_CancelledEntries ==
  \A r \in cancelled :
    pc[r] \in FinPcs =>
      \A f \in Range(Schedule(project_stats[r])) \ DispatchedOf(r) :
        \E e \in log : e.run = r /\ e.file = f /\ e.msg = "cancelled"

\* No element occurs twice in the sequence q.
NoDuplicates(q) == \A i, j \in 1..Len(q) : i # j => q[i] # q[j]

\* C7: in a run each manifest file is scheduled at most once, distinct
\* scheduled files have distinct output paths, and no two tasks wrote to the
\* same output path.
C7_DistinctOutputPaths ==
  \A r \in Runs :
    LET q == Schedule(project_stats[r]) IN
      /\ NoDuplicates(q)
      /\ \A i, j \in 1..Len(q) :
           i # j => TargetFile(Catalog[q[i]].path) # TargetFile(Catalog[q[j]].path)
      /\ \A w1, w2 \in written :
           (w1[1] = w2[1] /\ w1[3] = w2[3]) => w1[2] = w2[2]

\* C7 witness: one run wrote the outputs of two files of the same name.
C7_Witness ==
  \E w1, w2 \in written :
    /\ w1[1] = w2[1]
    /\ w1[2] # w2[2]
    /\ Catalog[w1[2]].name = Catalog[w2[2]].name

ConvertPcs == {"gate", "poll", "convert", "open", "fwrite", "progress",
               "assetsCheck", "assetPoll", "assetCopy", "doneCheck"}

\* C8: a run starts a conversion task or writes a converted file only after
\* the scaffolding step and the dependency installation both succeeded; when
\* either failed, the run goes to its end with no file started or written.
C8_CollaboratorGate ==
  \A r \in Runs :
    Alive(r) =>
      /\ (pc[r] \in ConvertPcs \/ DispatchedOf(r) # {} \/ WrittenOf(r) # {})
           => (ScaffoldOk(setup_outcome[r]) /\ DepsOk(setup_outcome[r]))
      /\ (setup_outcome[r] \in SetupOutcomes /\ ~(ScaffoldOk(setup_outcome[r]) /\ DepsOk(setup_outcome[r])))
           => (pc[r] \in FinPcs /\ DispatchedOf(r) = {} /\ WrittenOf(r) = {})

\* C8 witness: the dependency installation failed and the run is ending with
\* nothing converted.
C8_Witness ==
  \E r \in Runs :
    /\ setup_outcome[r] = "deps_failed"
    /\ pc[r] = "fin1"
    /\ DispatchedOf(r) = {}

\* C9: no file classified config, asset or unclassified is run through the
\* rewrite pipeline by a conversion task.
C9_OnlyConvertibleCategories ==
  \A d \in Dispatched :
    _categorize_file(Catalog[d[2]]) \notin {"config_files", "public_assets", None}

\* C10: at every report of a batch the progress is the number of tasks
\* completed over the number of tasks scheduled.
C10_ProgressIsFraction ==
  \A r \in Runs :
    (pc[r] = "poll" /\ processed[r] > 0) =>
      progress_var[1] * Len(Schedule(project_stats[r])) = processed[r] * progress_var[2]

\* C10 amended: during a run of the GUI the progress never decreases; the
\* value reported after the p-th file of _convert_files is 10 + 70 * p / t,
\* with t the number of files in all the lists of the manifest, public assets
\* included; and it is 100 only once every scheduled file was processed and
\* every asset copied.
C10_ProgressMonotone ==
  [][/\ started' = started => FracLeq(progress_var, progress_var')
     /\ \A r \in Runs :
          (pc[r] = "progress" /\ pc'[r] = "poll") =>
            LET t == TotalFiles(project_stats[r]) IN
              progress_var'[1] * t = (10 * t + 70 * processed'[r]) * progress_var'[2]
     /\ \A r \in Runs :
          (Alive(r)' /\ r = conversion_thread' /\ progress_var' = Frac(100, 1)) =>
            /\ processed'[r] = Len(Schedule(project_stats'[r]))
            /\ pos'[r] > Len(project_stats'[r]["public_assets"])]_vars

\* C10 witness: two files were reported and the assets are still to copy.
C10_Witness ==
  \E r \in Runs :
    /\ pc[r] = "assetPoll"
    /\ processed[r] = 2
    /\ Len(project_stats[r]["public_assets"]) = 1
    /\ progress_var = Frac(10 * 3 + 70 * 2, 3)

Categories == {StatsKeys[k] : k \in 1..Len(StatsKeys)}

\* How many entries of the lists of a manifest name file i.
RECURSIVE Occurrences(_, _, _)
Occurrences(st, i, k) ==
  IF k > Len(StatsKeys) THEN 0
  ELSE Len(SelectSeq(st[StatsKeys[k]], LAMBDA x : x = i)) + Occurrences(st, i, k + 1)

TestOrder == <<"config_files", "styles", "api_routes", "components", "pages",
               "layouts", "public_assets">>

\* The content tests are made on script files that could be read.
ScriptRead(f) == f.suffix \in ScriptSuffixes /\ f.readable

TestPasses(c, f) ==
  LET w == ContentWords(f.content) IN
  CASE c = "config_files" -> f.name \in ConfigNames
    [] c = "styles" -> f.suffix \in StyleSuffixes
    [] c = "api_routes" ->
         /\ ScriptRead(f)
         /\ "api" \in f.pathWords
         /\ w \cap {"req,", "res,", "response", "request"} # {}
    [] c = "components" ->
         /\ ScriptRead(f)
         /\ "components" \in f.pathWords
         /\ w \cap {"react", "export default", "<"} # {}
    [] c = "pages" ->
         /\ ScriptRead(f)
         /\ ("pages" \in f.pathWords
               \/ w \cap {"getstaticprops", "getserversideprops"} # {})
    [] c = "layouts" ->
         /\ ScriptRead(f)
         /\ ("layout" \in f.pathWords \/ w \cap {"children", "props.children"} # {})
    [] c = "public_assets" -> f.pathWords \cap {"public", "assets"} # {}

Passing(f) == {k \in 1..Len(TestOrder) : TestPasses(TestOrder[k], f)}

FirstMatch(f) ==
  IF Passing(f) = {} THEN None
  ELSE TestOrder[CHOOSE k \in Passing(f) : \A j \in Passing(f) : k <= j]

\* C12: for every path and content the category returned is that of the first
\* test that passes in the order config, style, api route, component, page,
\* layout, asset, and None (unclassified) when no test passes.
C12_FirstMatchWins ==
  (fn_op = "categorize" /\ fn_out # <<>>) => fn_out[1] = FirstMatch(fn_in)

\* C12 witness: a script whose path has components and pages and whose content
\* has markup passes the component, page and asset tests and is a component.
C12_Witness ==
  /\ fn_op = "categorize"
  /\ fn_pc = "done"
  /\ Cardinality(Passing(fn_in)) >= 3
  /\ {"components", "pages"} \subseteq {TestOrder[k] : k \in Passing(fn_in)}
  /\ fn_out[1] = "components"

\* C13: a file whose path has a component in the exclusion set is skipped
\* before classification: it is in no list of the manifest, and it is neither
\* given to convert_file nor copied.
C13_ExcludedNeverListed ==
  /\ \A r \in Runs : \A c \in Categories : \A k \in 1..Len(project_stats[r][c]) :
        ~should_skip_path(Catalog[project_stats[r][c][k]].path)
  /\ \A d \in Dispatched : ~should_skip_path(Catalog[d[2]].path)
  /\ \A w \in written : ~should_skip_path(Catalog[w[2]].path)

\* The tokens the patterns of the four stages of convert_file match, and
\* those the patterns of _transform_component match.
MatchedByStages == {"impRouter", "impRouterReexp", "impRRD3Reexp", "impRRD2Reexp",
                    "callPush", "tagImage", "getStatic"}
MatchedByTransform == {"impRouter", "impRouterReexp", "tagImage"}

NoRuleMatches ==
  \A k \in 1..Len(fn_in) :
    fn_in[k] \notin (IF fn_op = "rewrite_gui" THEN MatchedByStages ELSE MatchedByTransform)

\* C14: on a text no rewrite rule matches, the rewrite returns the text
\* unchanged and verify_components(original, rewritten) returns equal = True
\* with an empty diff.
C14_NoMatchNoChange ==
  (fn_op \in {"rewrite_gui", "rewrite_cli"} /\ fn_pc = "done" /\ NoRuleMatches) =>
    /\ fn_out.converted = fn_in
    /\ fn_out.equal
    /\ fn_out.diff = <<>>

\* C14 witness: _transform_component and verify_components ran on a text with
\* markup and a router call that no rule of _transform_component matches.
C14_Witness ==
  /\ fn_op = "rewrite_cli"
  /\ fn_pc = "done"
  /\ fn_in = <<"tagDiv", "callPush">>
  /\ fn_out.equal

\* The conversion differs from the original only in Image tags rewritten to
\* their img or LazyLoadImage equivalent.
OnlyTagsRewritten(original, converted) ==
  /\ Len(converted) = Len(original)
  /\ \A k \in 1..Len(original) :
        converted[k] # original[k] =>
          original[k] = "tagImage" /\ converted[k] \in {"tagImg", "tagLazy"}
  /\ \E k \in 1..Len(original) : converted[k] # original[k]

\* C15: when the rewrite changes only tag names or attribute values inside
\* matched constructs (an Image tag rewritten to its img equivalent),
\* verify_components(original, converted) returns equal = True.
C15_TagRewriteVerifies ==
  (/\ fn_op \in {"rewrite_gui", "rewrite_cli"}
   /\ fn_pc = "done"
   /\ OnlyTagsRewritten(fn_in, fn_out.converted)) => fn_out.equal

\* C16: when the converted text differs from the original by the deletion or
\* the duplication of a markup element, verify_components returns equal =
\* False and a diff that is not empty.
C16_FaultDetected ==
  (fn_op = "fault" /\ fn_pc = "done") => (~fn_out.equal /\ fn_out.diff # <<>>)

\* C16 witness: a <div> that the rewrite leaves alone was duplicated and the
\* verification failed.
C16_Witness ==
  /\ fn_op = "fault"
  /\ fn_pc = "done"
  /\ fn_in.kind = "duplicate"
  /\ fn_in.text = <<"text", "tagDiv">>
  /\ fn_out.converted = <<"text", "tagDiv", "tagDiv">>
  /\ ~fn_out.equal

\* C17: the import stage is idempotent: applied to its own output it returns
\* that output unchanged.
C17_ImportIdempotent ==
  (fn_op = "imports" /\ fn_pc = "done") => fn_out[2] = fn_out[1]

\* The attributes of a converted tag other than the loading hint.
KeptAttrs(tag) == SelectSeq(tag.attrs, LAMBDA a : a.name # "loading")

\* C18: converting an Image tag changes the tag name, adds a lazy-loading
\* hint, and keeps src and every other attribute with the same text and in the
\* original order: width="200" height="100" stay as they are and no attribute
\* is dropped.
C18_ImageAttributesKept ==
  (fn_op \in {"image_gui", "image_cli"} /\ fn_pc = "done") =>
    /\ fn_out.tag # "Image"
    /\ KeptAttrs(fn_out) = fn_in.prefix \o <<SrcAttr>> \o fn_in.suffix
    /\ \E k \in 1..Len(fn_out.attrs) : fn_out.attrs[k].name = "loading"

\* C19: every file whose conversion fails is reported by name with its
\* reason, and no scheduled file ends without output and without such a
\* report: when a run that was set up and not cancelled is over, every file of
\* its schedule was written or is named in an error line of the log.
C19_EveryFailureReported ==
  \A r \in Runs :
    (pc[r] \in FinPcs /\ setup_outcome[r] = "ok" /\ r \notin cancelled) =>
      \A f \in Range(Schedule(project_stats[r])) :
        f \in WrittenOf(r) \/ f \in IOErrorsOf(r)

\* C20: once the cleanup of a cancellation has removed the target directory,
\* the cancelled run creates no file under it: no step of that run makes a
\* path of the target tree exist.
C20_NoWriteAfterCleanup ==
  [][\A r \in cleaned :
       pc'[r] # pc[r] =>
         \A p \in TargetPaths : tree[p] = Absent => tree'[p] = Absent]_vars

\* C21: at most one conversion thread is alive at any time, and a step that
\* clears conversion_active while the latest run's thread stays alive is the
\* Yes answer to the cancel question: the end-of-run reset of an earlier run
\* never clears the flag of a run started after it.
C21_OneThreadOwnFlag ==
  [][ /\ Cardinality({r \in Runs : Alive(r)'}) <= 1
      /\ (conversion_active /\ ~conversion_active' /\ Alive(conversion_thread)')
            => dialog = "confirm" ]_vars

\* C22: once the conversion of one file hangs in a run that is not cancelled,
\* every scheduled file of that run still gets its conversion started in the
\* end (its "Converting" line is logged) or the run is cancelled.
C22_HangStallsOneFile ==
  \A r \in Runs :
    (pc[r] = "hung")
      ~> (\/ r \in cancelled
          \/ Range(Schedule(project_stats[r])) \subseteq DispatchedOf(r))

\* C23: a task that no worker has picked up is pending, a task a worker is
\* executing is running, and a task whose conversion has ended is succeeded,
\* failed or cancelled.
C23_TaskStatusLifecycle ==
  \A i \in 1..Len(tasks) :
    /\ task_pc[i] \in {"none", "queued"} => status[i] = "pending"
    /\ i \in Running => status[i] = "running"
    /\ task_pc[i] = "done" => status[i] \in {"succeeded", "failed", "cancelled"}

\* C24: within one call of convert_file the k-th stage that runs is the k-th
\* of import rewrite, routing rewrite, component rewrite, data-fetching
\* rewrite, its input is the previous stage's output (the file's text for the
\* first), and the call returns after exactly these four.
C24_StagesInOrder ==
  fn_op = "stages" =>
    /\ Len(fn_out) <= 4
    /\ fn_pc = "done" =>
          /\ [k \in 1..Len(fn_out) |-> fn_out[k].stage]
               = <<"imports", "routing", "components", "data_fetching">>
          /\ fn_out[4].text = convert_file([content |-> fn_in, readable |-> TRUE], TRUE)
    /\ \A k \in 1..Len(fn_out) :
         LET content == IF k = 1 THEN fn_in ELSE fn_out[k - 1].text
         IN fn_out[k].text =
              (CASE k = 1 -> _convert_imports(content)
                 [] k = 2 -> _convert_routing(content)
                 [] k = 3 -> _convert_components(content)
                 [] OTHER -> _convert_data_fetching(content))

\* convert_file has returned for a text in which the import stage and the
\* routing stage each changed something.
C24_Witness ==
  /\ fn_op = "stages"
  /\ fn_pc = "done"
  /\ fn_out[1].text # fn_in
  /\ fn_out[2].text # fn_out[1].text

\* The tests of a file that look at its path alone: the configuration names,
\* the style-sheet suffixes and the public/assets test.
PathOnlyRules(f) ==
  IF f.name \in ConfigNames THEN "config_files"
  ELSE IF f.suffix \in StyleSuffixes THEN "styles"
  ELSE IF f.pathWords \cap {"public", "assets"} # {} THEN "public_assets"
  ELSE None

\* C25: the classification of a script file that cannot be read as text
\* returns (no error), and what it returns is what the path-only tests give:
\* the category of the first of them that applies, or no category when none
\* applies.
C25_UnreadableScriptByPath ==
  (fn_op = "categorize" /\ fn_in.suffix \in ScriptSuffixes /\ ~fn_in.readable) =>
    \A k \in 1..Len(fn_out) :
      /\ fn_out[k] \in Categories \cup {None}
      /\ fn_out[k] = PathOnlyRules(fn_in)

\* An unreadable script under pages/ has been classified: it has no category.
C25_Witness ==
  /\ fn_op = "categorize"
  /\ fn_pc = "done"
  /\ fn_in.suffix \in ScriptSuffixes
  /\ ~fn_in.readable
  /\ fn_in.pathWords = {"pages"}
  /\ fn_out[1] = None

\* C26: the try block of the effect generated for a getStaticProps export
\* holds the whole body of the function, and nothing of the body or of its
\* closing brace is left after the replacement.
C26_WholeBodyInlined ==
  (fn_op = "data_fetching" /\ fn_pc = "done") =>
    /\ fn_out.effect.try_block = fn_in
    /\ fn_out.after = <<>>

\* C27: the import stage replaces each import of next/router by its
\* replacement and leaves every other statement of the line as it was, also
\* an import of another module on the same line.
C27_OnlyNextImportsChange ==
  (fn_op = "import_line" /\ fn_pc = "done") =>
    fn_out = [k \in 1..Len(fn_in) |->
                IF fn_in[k] = "impRouter" THEN "impRRD3" ELSE fn_in[k]]

\* C28: the routing stage, the component stage and the data-fetching stage
\* each return their own output unchanged when applied to it.
C28_StagesIdempotent ==
  (fn_op = "stage_twice" /\ fn_pc = "done") => fn_out[2] = fn_out[1]

\* C29: when the loop of _convert_files is done with a file whose convert_file
\* returned a text (not None), that file has been written to its output path,
\* whatever the text, the empty one included.
C29_ConvertedFileWritten ==
  \A r \in Runs :
    (pc[r] = "progress" /\ converted_content[r] # NoText) =>
      \E w \in written : w[1] = r /\ w[2] = Cur(r)
                          /\ w[3] = TargetFile(Catalog[Cur(r)].path)

\* C30: the copies of two distinct asset source paths are written to two
\* distinct target paths.
C30_DistinctAssetTargets ==
  fn_op = "copy_assets" =>
    \A i, j \in 1..Len(fn_out) : fn_in[i] # fn_in[j] => fn_out[i] # fn_out[j]

====
